---- MODULE Spec2Model ----
(***************************************************************************)
(* A model of pywhispercpp/examples/main.py: the batch loop of run() and   *)
(* the parameter translation of _get_params().                             *)
(*                                                                         *)
(* Spec        the batch loop of run() (main.py lines 65-99), one action   *)
(*             per statement group, the Engine (Model.transcribe and       *)
(*             Model.print_timings) being a nondeterministic collaborator  *)
(*             that returns or raises.                                     *)
(* SpecParams  _get_params() (main.py lines 30-50), one action per         *)
(*             iteration of its loop over the arguments.                   *)
(***************************************************************************)
EXTENDS Integers, Sequences, FiniteSets

\* ------------------------------------------------------------------ bounds
MaxFiles == 3   \* longest media_file list explored
MaxSegs == 2    \* longest segment list a transcription returns
MaxArgs == 3    \* largest argument namespace handed to _get_params

VARIABLES
    \* ---- run(args) ----
    nfiles,      \* len(args.media_file); file k of the list is named k
    output_txt, output_vtt, output_srt, output_csv,   \* args.output_*
    i,           \* position of `file` in args.media_file (0: loop not entered)
    pc,          \* position of control inside run()
    segsBound,   \* whether the local variable `segs` has been assigned
    segs,        \* value of `segs` (meaningful only when segsBound)
    pending,     \* control transfer deferred by the finally block: "next" | "break"
    status,      \* per-file state: PENDING / PROCESSING / SUCCEEDED / FAILED
    engine,      \* per file, how its try body ended: "none" | "returned" | "Exception" | "KeyboardInterrupt"
    ret,         \* what transcribe returned in the current iteration
    attempted,   \* files transcribe has been invoked for, in order of invocation
    iterLog,     \* writer calls and segment log lines of the current iteration
    \* ---- _get_params(args) ----
    argv,        \* args.__dict__ as a sequence of <<name, value>> in insertion order
    idx,         \* number of arguments already visited
    params,      \* the dict being built
    ppc          \* "loop" | "returned"

runVars == <<nfiles, output_txt, output_vtt, output_srt, output_csv, i, pc,
             segsBound, segs, pending, status, engine, ret, attempted, iterLog>>
paramVars == <<argv, idx, params, ppc>>
vars == <<nfiles, output_txt, output_vtt, output_srt, output_csv, i, pc,
          segsBound, segs, pending, status, engine, ret, attempted, iterLog,
          argv, idx, params, ppc>>

\* =====================================================================
\*                               run()
\* =====================================================================

\* The segment list the Engine returns for file f when it finds c segments:
\* segment k of file f is the pair <<f, k>>, so results of different files
\* never coincide unless both are empty.
Transcription(f, c) == [k \in 1..c |-> <<f, k>>]

NoResult == [returned |-> FALSE, value |-> <<>>]

\* A call utils.output_<fmt>(segs, file).
WriterCall(op, s, f) == [op |-> op, file |-> f, segs |-> s, n |-> 0]

\* A console line logger.info(f"Segment {n:02}: {seg}") emitted while `file` is f.
SegmentLine(n, seg, f) == [op |-> "log_segment", file |-> f, segs |-> <<seg>>, n |-> n]

\* for i, seg in enumerate(segs): logger.info(...)
SegmentLines(s, f) == [k \in 1..Len(s) |-> SegmentLine(k - 1, s[k], f)]

InitRun ==
    /\ nfiles \in 1..MaxFiles
    /\ output_txt \in BOOLEAN
    /\ output_vtt \in BOOLEAN
    /\ output_srt \in BOOLEAN
    /\ output_csv \in BOOLEAN
    /\ i = 0
    /\ pc = "for"
    /\ segsBound = FALSE
    /\ segs = <<>>
    /\ pending = "next"
    /\ status = [f \in 1..nfiles |-> "PENDING"]
    /\ engine = [f \in 1..nfiles |-> "none"]
    /\ ret = NoResult
    /\ attempted = <<>>
    /\ iterLog = <<>>

\* line 65: the for statement binds the next file; line 67 opens its try body.
ForNext ==
    /\ pc = "for"
    /\ i < nfiles
    /\ i' = i + 1
    /\ status' = [status EXCEPT ![i + 1] = "PROCESSING"]
    /\ ret' = NoResult
    /\ iterLog' = <<>>
    /\ pending' = "next"
    /\ pc' = "transcribe"
    /\ UNCHANGED <<paramVars, nfiles, output_txt, output_vtt, output_srt, output_csv,
                   segsBound, segs, engine, attempted>>

\* line 65: the list is exhausted, run() returns.
ForExhausted ==
    /\ pc = "for"
    /\ i >= nfiles
    /\ pc' = "done"
    /\ UNCHANGED <<paramVars, nfiles, output_txt, output_vtt, output_srt, output_csv, i,
                   segsBound, segs, pending, status, engine, ret, attempted, iterLog>>

\* lines 68-71: m.transcribe(file, ...) returns and its value is bound to segs.
TranscribeReturns ==
    /\ pc = "transcribe"
    /\ \E c \in 0..MaxSegs :
          /\ segs' = Transcription(i, c)
          /\ ret' = [returned |-> TRUE, value |-> Transcription(i, c)]
    /\ segsBound' = TRUE
    /\ attempted' = Append(attempted, i)
    /\ pc' = "print_timings"
    /\ UNCHANGED <<paramVars, nfiles, output_txt, output_vtt, output_srt, output_csv, i,
                   pending, status, engine, iterLog>>

\* lines 68-71: m.transcribe raises; segs is not assigned.
TranscribeRaises ==
    /\ pc = "transcribe"
    /\ \E e \in {"Exception", "KeyboardInterrupt"} :
          /\ engine' = [engine EXCEPT ![i] = e]
          /\ pc' = IF e = "KeyboardInterrupt" THEN "except_KeyboardInterrupt"
                   ELSE "except_Exception"
    /\ attempted' = Append(attempted, i)
    /\ UNCHANGED <<paramVars, nfiles, output_txt, output_vtt, output_srt, output_csv, i,
                   segsBound, segs, pending, status, ret, iterLog>>

\* line 72: m.print_timings() returns; the try body completes normally.
PrintTimingsReturns ==
    /\ pc = "print_timings"
    /\ engine' = [engine EXCEPT ![i] = "returned"]
    /\ status' = [status EXCEPT ![i] = "SUCCEEDED"]
    /\ pc' = "finally"
    /\ UNCHANGED <<paramVars, nfiles, output_txt, output_vtt, output_srt, output_csv, i,
                   segsBound, segs, pending, ret, attempted, iterLog>>

\* line 72: m.print_timings() raises.
PrintTimingsRaises ==
    /\ pc = "print_timings"
    /\ \E e \in {"Exception", "KeyboardInterrupt"} :
          /\ engine' = [engine EXCEPT ![i] = e]
          /\ pc' = IF e = "KeyboardInterrupt" THEN "except_KeyboardInterrupt"
                   ELSE "except_Exception"
    /\ UNCHANGED <<paramVars, nfiles, output_txt, output_vtt, output_srt, output_csv, i,
                   segsBound, segs, pending, status, ret, attempted, iterLog>>

\* ExceptKeyboardInterrupt with the break of line 75 lost.
ExceptKeyboardInterrupt_NoBreak ==
    /\ pc = "except_KeyboardInterrupt"
    /\ pending' = "next"
    /\ pc' = "finally"
    /\ UNCHANGED <<paramVars, nfiles, output_txt, output_vtt, output_srt, output_csv, i,
                   segsBound, segs, status, engine, ret, attempted, iterLog>>

\* lines 73-75: except KeyboardInterrupt: log, break (the break is taken
\* after the finally block has run).
ExceptKeyboardInterrupt ==
    /\ pc = "except_KeyboardInterrupt"
    /\ pending' = "break"
    /\ pc' = "finally"
    /\ UNCHANGED <<paramVars, nfiles, output_txt, output_vtt, output_srt, output_csv, i,
                   segsBound, segs, status, engine, ret, attempted, iterLog>>

\* ExceptException retrying the file that failed.
ExceptException_Retry ==
    /\ pc = "except_Exception"
    /\ status' = [status EXCEPT ![i] = "FAILED"]
    /\ i' = i - 1
    /\ pc' = "finally"
    /\ UNCHANGED <<paramVars, nfiles, output_txt, output_vtt, output_srt, output_csv,
                   segsBound, segs, pending, engine, ret, attempted, iterLog>>

\* lines 76-77: except Exception: the error is logged and swallowed.
ExceptException ==
    /\ pc = "except_Exception"
    /\ status' = [status EXCEPT ![i] = "FAILED"]
    /\ pc' = "finally"
    /\ UNCHANGED <<paramVars, nfiles, output_txt, output_vtt, output_srt, output_csv, i,
                   segsBound, segs, pending, engine, ret, attempted, iterLog>>

\* line 79: `if segs:`. Reading the unassigned local raises UnboundLocalError,
\* which leaves the finally block, the loop and run().
FinallyTest ==
    /\ pc = "finally"
    /\ pc' = IF ~segsBound THEN "crashed"
             ELSE IF segs # <<>> THEN "output_txt"
             ELSE "end_finally"
    /\ UNCHANGED <<paramVars, nfiles, output_txt, output_vtt, output_srt, output_csv, i,
                   segsBound, segs, pending, status, engine, ret, attempted, iterLog>>

\* lines 81-84
OutputTxt ==
    /\ pc = "output_txt"
    /\ iterLog' = IF output_txt THEN Append(iterLog, WriterCall("output_txt", segs, i))
                  ELSE iterLog
    /\ pc' = "output_vtt"
    /\ UNCHANGED <<paramVars, nfiles, output_txt, output_vtt, output_srt, output_csv, i,
                   segsBound, segs, pending, status, engine, ret, attempted>>

\* OutputVtt gated by the txt flag.
OutputVtt_TxtFlag ==
    /\ pc = "output_vtt"
    /\ iterLog' = IF output_txt THEN Append(iterLog, WriterCall("output_vtt", segs, i))
                  ELSE iterLog
    /\ pc' = "output_srt"
    /\ UNCHANGED <<paramVars, nfiles, output_txt, output_vtt, output_srt, output_csv, i,
                   segsBound, segs, pending, status, engine, ret, attempted>>

\* lines 85-88
OutputVtt ==
    /\ pc = "output_vtt"
    /\ iterLog' = IF output_vtt THEN Append(iterLog, WriterCall("output_vtt", segs, i))
                  ELSE iterLog
    /\ pc' = "output_srt"
    /\ UNCHANGED <<paramVars, nfiles, output_txt, output_vtt, output_srt, output_csv, i,
                   segsBound, segs, pending, status, engine, ret, attempted>>

\* lines 89-92
OutputSrt ==
    /\ pc = "output_srt"
    /\ iterLog' = IF output_srt THEN Append(iterLog, WriterCall("output_srt", segs, i))
                  ELSE iterLog
    /\ pc' = "output_csv"
    /\ UNCHANGED <<paramVars, nfiles, output_txt, output_vtt, output_srt, output_csv, i,
                   segsBound, segs, pending, status, engine, ret, attempted>>

\* OutputCsv with the enumeration of lines 98-99 outside the else branch.
OutputCsv_AlwaysLogs ==
    /\ pc = "output_csv"
    /\ iterLog' = (IF output_csv THEN Append(iterLog, WriterCall("output_csv", segs, i))
                   ELSE iterLog) \o SegmentLines(segs, i)
    /\ pc' = "end_finally"
    /\ UNCHANGED <<paramVars, nfiles, output_txt, output_vtt, output_srt, output_csv, i,
                   segsBound, segs, pending, status, engine, ret, attempted>>

\* lines 93-99: the csv writer, or else the per-segment console lines.
OutputCsv ==
    /\ pc = "output_csv"
    /\ iterLog' = IF output_csv THEN Append(iterLog, WriterCall("output_csv", segs, i))
                  ELSE iterLog \o SegmentLines(segs, i)
    /\ pc' = "end_finally"
    /\ UNCHANGED <<paramVars, nfiles, output_txt, output_vtt, output_srt, output_csv, i,
                   segsBound, segs, pending, status, engine, ret, attempted>>

\* end of the finally block: the deferred break is taken, or the loop goes on.
FinallyExit ==
    /\ pc = "end_finally"
    /\ pc' = IF pending = "break" THEN "done" ELSE "for"
    /\ UNCHANGED <<paramVars, nfiles, output_txt, output_vtt, output_srt, output_csv, i,
                   segsBound, segs, pending, status, engine, ret, attempted, iterLog>>

Next ==
    \/ ForNext
    \/ ForExhausted
    \/ TranscribeReturns
    \/ TranscribeRaises
    \/ PrintTimingsReturns
    \/ PrintTimingsRaises
    \/ ExceptKeyboardInterrupt
    \/ ExceptException
    \/ FinallyTest
    \/ OutputTxt
    \/ OutputVtt
    \/ OutputSrt
    \/ OutputCsv
    \/ FinallyExit

\* =====================================================================
\*                            _get_params()
\* =====================================================================

\* None, and the non-null values an argument may carry.
None == "None"
Values == {None, "v1", "v2"}

\* constants.PARAMS_SCHEMA (its keys): a table with each shape the data model
\* describes. "vad" and "task" are dict-typed groups; "translate" is a
\* canonical key that is also the externally-facing name of task.translate.
PARAMS_SCHEMA == {"n_threads", "language", "translate", "vad", "task"}

\* constants.PARAMS_MAPPING: canonical path -> externally-facing name. A path
\* is held as the sequence of its "."-separated segments.
PARAMS_MAPPING ==
    { <<<<"vad", "speed_up">>, "speed_up">>,
      <<<<"vad", "threshold">>, "vad_threshold">>,
      <<<<"task", "translate">>, "translate">>,
      <<<<"language">>, "lang">> }

MappedNames == {m[2] : m \in PARAMS_MAPPING}

\* line 35: inv_params_mapping = {v: k for k, v in PARAMS_MAPPING.items()}
inv_params_mapping ==
    [n \in MappedNames |-> (CHOOSE m \in PARAMS_MAPPING : m[2] = n)[1]]

\* Names an argparse namespace handed to run() may hold: the flags main()
\* derives from the tables (lines 145-175; a dict-typed schema key gets no
\* flag of its own) and flags outside the tables (lines 106-142).
Unrecognized == {"model", "media_file"}
ArgNames == {"n_threads", "language", "translate", "speed_up", "vad_threshold",
             "lang"} \cup Unrecognized

\* A value of the params dict: a plain value or a nested dict.
EmptyDict == [k \in {} |-> None]
Scalar(v) == [dict |-> FALSE, val |-> v, sub |-> EmptyDict]
Dict(d) == [dict |-> TRUE, val |-> None, sub |-> d]

\* d[k] = v
Put(d, k, v) == [x \in DOMAIN d \cup {k} |-> IF x = k THEN v ELSE d[x]]

\* lines 41-45: the argument resolves to group.field while params[group] holds
\* a plain value: the item assignment of line 45 raises TypeError. (With the
\* tables above no argument of ArgNames stores a plain value under a group
\* key, so GetParamsStep never takes this branch.)
NestedAssignRaises(p, arg, value) ==
    /\ ~(arg \in PARAMS_SCHEMA /\ value # None)
    /\ arg \in DOMAIN inv_params_mapping
    /\ Len(inv_params_mapping[arg]) > 1
    /\ inv_params_mapping[arg][1] \in DOMAIN p
    /\ ~p[inv_params_mapping[arg][1]].dict

\* ResolveArg without the test of line 43: the group is reset on every field.
ResolveArg_GroupReset(p, arg, value) ==
    IF arg \in PARAMS_SCHEMA /\ value # None
    THEN Put(p, arg, Scalar(value))
    ELSE IF arg \in DOMAIN inv_params_mapping
    THEN LET arg_ == inv_params_mapping[arg] IN
         IF Len(arg_) > 1
         THEN Put(p, arg_[1], Dict(Put(EmptyDict, arg_[2], value)))
         ELSE Put(p, arg_[1], Scalar(value))
    ELSE p

\* ResolveArg passing an unrecognized argument through instead of ignoring it.
ResolveArg_KeepUnknown(p, arg, value) ==
    IF arg \in PARAMS_SCHEMA /\ value # None
    THEN Put(p, arg, Scalar(value))
    ELSE IF arg \in DOMAIN inv_params_mapping
    THEN LET arg_ == inv_params_mapping[arg] IN
         IF Len(arg_) > 1
         THEN LET g == arg_[1]
                  subarg_ == arg_[2]
                  q == IF g \notin DOMAIN p THEN Put(p, g, Dict(EmptyDict)) ELSE p
              IN  Put(q, g, Dict(Put(q[g].sub, subarg_, value)))
         ELSE Put(p, arg_[1], Scalar(value))
    ELSE Put(p, arg, Scalar(value))

\* lines 37-49: the body of the loop for one argument `arg` with value
\* getattr(args, arg).
ResolveArg(p, arg, value) ==
    IF arg \in PARAMS_SCHEMA /\ value # None
    THEN Put(p, arg, Scalar(value))
    ELSE IF arg \in DOMAIN inv_params_mapping
    THEN LET arg_ == inv_params_mapping[arg] IN
         IF Len(arg_) > 1
         THEN LET g == arg_[1]
                  subarg_ == arg_[2]
                  q == IF g \notin DOMAIN p THEN Put(p, g, Dict(EmptyDict)) ELSE p
              IN  Put(q, g, Dict(Put(q[g].sub, subarg_, value)))
         ELSE Put(p, arg_[1], Scalar(value))
    ELSE p

\* _get_params(args) as a whole: the loop of lines 36-49 over the arguments
\* in order, from params = {} (line 34).
RECURSIVE ResolveAll(_, _)
ResolveAll(p, as) ==
    IF as = <<>> THEN p
    ELSE ResolveAll(ResolveArg(p, Head(as)[1], Head(as)[2]), Tail(as))

get_params(as) == ResolveAll(EmptyDict, as)

\* Argument lists of length n over ArgNames, no name twice (a namespace is a dict).
RECURSIVE ArgLists(_)
ArgLists(n) ==
    IF n = 0 THEN {<<>>}
    ELSE {Append(l, <<a, v>>) :
            l \in ArgLists(n - 1),
            a \in ArgNames,
            v \in Values}

DistinctNames(l) == \A j, k \in 1..Len(l) : j # k => l[j][1] # l[k][1]

InitParams ==
    /\ \E n \in 0..MaxArgs : argv \in {l \in ArgLists(n) : DistinctNames(l)}
    /\ idx = 0
    /\ params = EmptyDict
    /\ ppc = "loop"

\* lines 36-49: one iteration of `for arg in args.__dict__`.
GetParamsStep ==
    /\ ppc = "loop"
    /\ idx < Len(argv)
    /\ idx' = idx + 1
    /\ IF NestedAssignRaises(params, argv[idx + 1][1], argv[idx + 1][2])
       THEN /\ ppc' = "TypeError"
            /\ params' = params
       ELSE /\ ppc' = ppc
            /\ params' = ResolveArg(params, argv[idx + 1][1], argv[idx + 1][2])
    /\ UNCHANGED <<runVars, argv>>

\* line 50: return params
GetParamsReturn ==
    /\ ppc = "loop"
    /\ idx = Len(argv)
    /\ ppc' = "returned"
    /\ UNCHANGED <<runVars, argv, idx, params>>

NextP ==
    \/ GetParamsStep
    \/ GetParamsReturn

\* ---------------------------------------------------------- specifications

\* run() alone: _get_params is not stepped.
ParamsIdle ==
    /\ argv = <<>>
    /\ idx = 0
    /\ params = EmptyDict
    /\ ppc = "returned"

\* _get_params alone: the batch loop is not entered.
RunIdle ==
    /\ nfiles = 1
    /\ output_txt = FALSE
    /\ output_vtt = FALSE
    /\ output_srt = FALSE
    /\ output_csv = FALSE
    /\ i = 0
    /\ pc = "idle"
    /\ segsBound = FALSE
    /\ segs = <<>>
    /\ pending = "next"
    /\ status = [f \in 1..nfiles |-> "PENDING"]
    /\ engine = [f \in 1..nfiles |-> "none"]
    /\ ret = NoResult
    /\ attempted = <<>>
    /\ iterLog = <<>>

Init == InitRun /\ ParamsIdle
Spec == Init /\ [][Next]_vars

InitP == InitParams /\ RunIdle
SpecParams == InitP /\ [][NextP]_vars

\* =====================================================================
\*                       properties of run()
\* =====================================================================

Terminal == {"SUCCEEDED", "FAILED"}
Writers == <<"output_txt", "output_vtt", "output_srt", "output_csv">>
Requested(op) ==
    \/ op = "output_txt" /\ output_txt
    \/ op = "output_vtt" /\ output_vtt
    \/ op = "output_srt" /\ output_srt
    \/ op = "output_csv" /\ output_csv

IsWriterCall(e) == e.op # "log_segment"
IsSegmentLine(e) == e.op = "log_segment"
WriterCalls == SelectSeq(iterLog, IsWriterCall)
LoggedLines == SelectSeq(iterLog, IsSegmentLine)
CallsOf(op) == Cardinality({k \in 1..Len(iterLog) : iterLog[k].op = op})
Interrupted == \E f \in 1..nfiles : engine[f] = "KeyboardInterrupt"
InOrder(n) == [k \in 1..n |-> k]

\* C1 (failure isolation): when no interruption occurs, run() never ends by an
\* exception leaving the loop, and at its end every file has been attempted,
\* in order, each file whose transcribe/print_timings raised being FAILED and
\* every other file SUCCEEDED.
C1_FailureIsolation ==
    ~Interrupted =>
        /\ pc # "crashed"
        /\ pc = "done" =>
              /\ attempted = InOrder(nfiles)
              /\ \A f \in 1..nfiles :
                    status[f] = IF engine[f] = "Exception" THEN "FAILED" ELSE "SUCCEEDED"

\* C2 (interruption aborts the batch): once a KeyboardInterrupt has been
\* raised while file k was being processed, transcribe has been invoked for no
\* file at a position after k.
C2_InterruptAborts ==
    \A k \in 1..nfiles :
        engine[k] = "KeyboardInterrupt" =>
            \A j \in 1..Len(attempted) : attempted[j] <= k

\* C2 witness: file 2 of 3 was interrupted after file 1 succeeded, and run() has ended.
C2_Witness ==
    /\ nfiles = 3
    /\ status[1] = "SUCCEEDED"
    /\ engine[2] = "KeyboardInterrupt"
    /\ pc = "done"

\* C3 (no leak of a previous file's result): every writer call and every
\* segment line of the iteration for file i uses the segments transcribe
\* returned for file i in this iteration; so when transcribe did not return,
\* there is no writer call and no segment line.
C3_NoLeak ==
    \A k \in 1..Len(iterLog) :
        /\ ret.returned
        /\ iterLog[k].file = i
        /\ IF IsWriterCall(iterLog[k])
           THEN iterLog[k].segs = ret.value
           ELSE /\ iterLog[k].n + 1 \in 1..Len(ret.value)
                /\ iterLog[k].segs = <<ret.value[iterLog[k].n + 1]>>

\* C4 (sequential per-file state machine): a file that has left PENDING has
\* only terminal files before it, at most one file is PROCESSING, transcribe
\* is invoked in input order and never twice for a file, and a file's state
\* changes only along PENDING -> PROCESSING -> SUCCEEDED or FAILED.
C4_StateInv ==
    /\ \A f \in 1..nfiles : \A g \in 1..(f - 1) :
          status[f] # "PENDING" => status[g] \in Terminal
    /\ Cardinality({f \in 1..nfiles : status[f] = "PROCESSING"}) <= 1
    /\ attempted = InOrder(Len(attempted))
    /\ Len(attempted) <= nfiles
C4_Step ==
    \A f \in 1..nfiles :
        status'[f] # status[f] =>
            <<status[f], status'[f]>> \in
                { <<"PENDING", "PROCESSING">>,
                  <<"PROCESSING", "SUCCEEDED">>,
                  <<"PROCESSING", "FAILED">> }
C4_StateMachine == []C4_StateInv /\ [][C4_Step]_vars

\* C4 witness: three files were processed, the second failed, the others succeeded.
C4_Witness ==
    /\ nfiles = 3
    /\ pc = "done"
    /\ status = <<"SUCCEEDED", "FAILED", "SUCCEEDED">>
    /\ attempted = <<1, 2, 3>>

\* C5 (writer order and gating): when the finally block of a file whose
\* transcription returned a non-empty segment list has run, the writer calls
\* made are exactly the requested writers, in the order txt, vtt, srt, csv,
\* each once, each with that file's segments and that file's path.
C5_WriterOrder ==
    (pc = "end_finally" /\ ret.returned /\ ret.value # <<>>) =>
        WriterCalls = [k \in 1..Len(SelectSeq(Writers, Requested)) |->
                          WriterCall(SelectSeq(Writers, Requested)[k], ret.value, i)]

\* C5 witness: all four writers ran for the second file, whose transcription
\* returned two segments.
C5_Witness ==
    /\ pc = "end_finally"
    /\ i = 2
    /\ ret.returned
    /\ Len(ret.value) = 2
    /\ Len(WriterCalls) = 4

\* C6 (csv suppresses the console enumeration): when the finally block of a
\* file with produced segments has run, there is no segment line if csv output
\* is requested and otherwise one line per segment, in order; and the txt, vtt
\* and srt writers were each called once if requested and not at all otherwise.
C6_CsvSuppressesLog ==
    (pc = "end_finally" /\ ret.returned /\ ret.value # <<>>) =>
        /\ LoggedLines = IF output_csv THEN <<>> ELSE SegmentLines(ret.value, i)
        /\ CallsOf("output_txt") = IF output_txt THEN 1 ELSE 0
        /\ CallsOf("output_vtt") = IF output_vtt THEN 1 ELSE 0
        /\ CallsOf("output_srt") = IF output_srt THEN 1 ELSE 0

\* C6 witness: csv requested next to txt, two segments produced, nothing logged.
C6_Witness ==
    /\ pc = "end_finally"
    /\ ret.returned
    /\ Len(ret.value) = 2
    /\ output_csv
    /\ output_txt
    /\ ~output_vtt
    /\ CallsOf("output_csv") = 1
    /\ LoggedLines = <<>>

\* C10 (segs is defined when read): whenever control reaches the test of line
\* 79, segs has been assigned, and run() never ends by UnboundLocalError.
C10_SegsDefinedWhenRead ==
    /\ pc = "finally" => segsBound
    /\ pc # "crashed"

\* =====================================================================
\*                    properties of _get_params()
\* =====================================================================

Names(as) == {as[k][1] : k \in 1..Len(as)}
ValueOf(as, name) == (CHOOSE a \in {as[k] : k \in 1..Len(as)} : a[1] = name)[2]

\* The structure that mirrors the mapping's dotted-path grouping for a list of
\* mapped names: one top-level key per undotted path, one nested dict per
\* group holding one field per dotted path.
PathsOf(as) == {inv_params_mapping[n] : n \in Names(as)}
NameOf(path) == CHOOSE n \in MappedNames : inv_params_mapping[n] = path
Mirror(as) ==
    [t \in {path[1] : path \in PathsOf(as)} |->
        IF <<t>> \in PathsOf(as)
        THEN Scalar(ValueOf(as, NameOf(<<t>>)))
        ELSE Dict([f \in {path[2] : path \in {q \in PathsOf(as) : Len(q) = 2 /\ q[1] = t}} |->
                      ValueOf(as, NameOf(<<t, f>>))])]

\* C7 as claimed (nested shape): for every argument list whose names are all
\* mapped names of PARAMS_MAPPING, _get_params returns the structure mirroring
\* the dotted-path grouping.
C7_NestedShape ==
    (ppc = "returned" /\ Names(argv) \subseteq MappedNames) =>
        params = Mirror(argv)

\* C7 as amended: the same, for argument lists whose names are all mapped
\* names of PARAMS_MAPPING and none of them also a key of PARAMS_SCHEMA.
C7_NestedShapeUnshadowed ==
    (ppc = "returned" /\ Names(argv) \subseteq MappedNames \ PARAMS_SCHEMA) =>
        params = Mirror(argv)

\* C7 witness: two fields of the group vad and an undotted path were resolved,
\* the two fields holding different values in one nested dict.
C7_Witness ==
    /\ ppc = "returned"
    /\ Names(argv) = {"speed_up", "vad_threshold", "lang"}
    /\ "vad" \in DOMAIN params
    /\ params["vad"].dict
    /\ DOMAIN params["vad"].sub = {"speed_up", "threshold"}
    /\ params["vad"].sub["speed_up"] # params["vad"].sub["threshold"]
    /\ "language" \in DOMAIN params

\* Whether the canonical path `path` holds an entry in p.
Written(p, path) ==
    /\ path[1] \in DOMAIN p
    /\ Len(path) > 1 => /\ p[path[1]].dict
                        /\ path[2] \in DOMAIN p[path[1]].sub

\* C8 (schema precedence): an argument already visited whose name is both a
\* key of PARAMS_SCHEMA and a mapped name is never written to the canonical
\* path the inverse mapping gives for it, whatever its value, None included;
\* a non-null value is found under the name itself.
C8_SchemaPrecedence ==
    \A k \in 1..idx :
        argv[k][1] \in PARAMS_SCHEMA \cap MappedNames =>
            /\ ~Written(params, inv_params_mapping[argv[k][1]])
            /\ argv[k][2] # None => /\ argv[k][1] \in DOMAIN params
                                    /\ params[argv[k][1]] = Scalar(argv[k][2])

\* Arguments _get_params recognizes: keys of the schema and mapped names.
Recognized(a) == a[1] \in PARAMS_SCHEMA \cup MappedNames
KeysOf(p) == DOMAIN p \cup UNION {DOMAIN p[t].sub : t \in DOMAIN p}

\* C9 (unrecognized arguments are ignored): the result for an argument list
\* equals the result for the list without its unrecognized arguments, and no
\* unrecognized name is a key of the result, at either level.
C9_UnrecognizedIgnored ==
    ppc = "returned" =>
        /\ params = get_params(SelectSeq(argv, Recognized))
        /\ \A k \in 1..Len(argv) :
              ~Recognized(argv[k]) => argv[k][1] \notin KeysOf(params)

\* C9 witness: an unrecognized argument with a value sat between two
\* recognized ones, both of which were resolved.
C9_Witness ==
    /\ ppc = "returned"
    /\ Len(argv) = 3
    /\ Recognized(argv[1])
    /\ ~Recognized(argv[2])
    /\ argv[2][2] # None
    /\ Recognized(argv[3])
    /\ Cardinality(DOMAIN params) = 2

====
